---- MODULE Spec2Model ----
(***************************************************************************)
(* The two-phase hybrid OVR/OVO classifier of svmAuthorRec.py:             *)
(*   hybrid_classification_for_fold  (one fold, statement by statement)    *)
(*   get_ovo_estimators_prediction   (pairwise vote tally, tie detection)  *)
(*   hybrid_classification           (fold loop, then mean and sem)        *)
(* numpy arrays are functions over 0..n-1, as in the source.  The binary   *)
(* estimators are opaque: what predict() answers is an input of the model. *)
(* A fraction float(k)/len(y_test) is kept as its numerator k, the         *)
(* denominator being len(y_test) for every metric of a fold.               *)
(***************************************************************************)
EXTENDS Integers, Sequences, FiniteSets, TLC

\* number of classes C (distinct authors) in the data
NumClasses == 3
\* len(y_test): samples in the test partition of a fold
MaxTest == 2
\* repetitions of the fold loop; the source sets 10, the model runs fewer
NUMFOLDS == 2
\* largest number of members a class of the label vector y may have
MaxMembers == 2

VARIABLES
    pc,                  \* position in hybrid_classification_for_fold
    y_test,              \* true labels of the test partition
    y_train_labels,      \* the labels that occur in the train partition
    ovr_classes,         \* ovr.classes_ as fitted on the train partition
    ovr_positive,        \* per fitted OVR estimator, the label it answers 1 for
    ovr_estimators,      \* number of trained OVR estimators (0 before ovr.fit)
    ovo_estimators,      \* number of trained OVO estimators (0 before ovo.fit)
    index,               \* loop variable of the Phase 1 loop (line 519)
    sample_prediction,   \* row of OVR votes the Phase 1 loop is looking at
    y_test_predict,      \* outcome vector
    test_indices_unclassified_in_phase1,
    p2pos,               \* position of the Phase 2 loop in that list (1-based)
    ovo_pred,            \* what the OVO estimators predicted in the latest call
    votes,               \* tally of the latest get_ovo_estimators_prediction call
    y_predict_ovo,       \* what that call returned
    after_phase1,        \* <<correct, incorrect, unclassified>> after Phase 1
    after_phase2,        \* the same after Phase 2
    fold_result,         \* the array the fold returns (line 552)
    rpc,                 \* position in hybrid_classification
    class_count,         \* bincount of the label vector y
    fold,                \* splits the iterator cval has yielded so far
    fold_calls,          \* calls of hybrid_classification_for_fold so far
    results,             \* the list of per-fold arrays
    printed,             \* lines printed by hybrid_classification
    returned,            \* value returned by hybrid_classification
    exception            \* exception that left hybrid_classification, if any

ovrVars == <<y_train_labels, ovr_classes, ovr_positive>>
foldVars == <<pc, y_test, ovrVars, ovr_estimators, ovo_estimators, index, sample_prediction,
              y_test_predict, test_indices_unclassified_in_phase1, p2pos, ovo_pred,
              votes, y_predict_ovo, after_phase1, after_phase2, fold_result>>
runVars == <<rpc, class_count, fold, fold_calls, results, printed, returned, exception>>
vars == <<foldVars, runVars>>

----------------------------------------------------------------------------
(* numpy helpers *)

Range(n) == 0 .. (n - 1)

RECURSIVE SumUpTo(_, _)
SumUpTo(a, n) == IF n = 0 THEN 0 ELSE a[n - 1] + SumUpTo(a, n - 1)

\* np.sum of a one-dimensional array
NpSum(a) == SumUpTo(a, Cardinality(DOMAIN a))

\* np.nonzero(a)[0][0]: the first index holding a non-zero entry
FirstNonzero(a) == CHOOSE i \in DOMAIN a : a[i] # 0 /\ \A j \in DOMAIN a : j < i => a[j] = 0

\* np.max of a one-dimensional array
NpMax(a) == CHOOSE m \in {a[i] : i \in DOMAIN a} : \A i \in DOMAIN a : a[i] <= m

\* argmax: the first index holding the maximum
NpArgmax(a) == CHOOSE i \in DOMAIN a : a[i] = NpMax(a) /\ \A j \in DOMAIN a : j < i => a[j] # NpMax(a)

\* np.sum(mask): how many entries of 0..n-1 satisfy the mask
CountTrue(mask) == Cardinality({i \in DOMAIN mask : mask[i]})

----------------------------------------------------------------------------
(* the data *)

\* ovr.classes_ / ovo.classes_: the sorted unique labels, labels being 0..C-1
classes_ == [c \in Range(NumClasses) |-> c]

ClassLabels == {classes_[c] : c \in Range(NumClasses)}

\* the value that marks an unclassified sample (line 517: -1 is an invalid value)
UNCLASSIFIED_ReusesLabel == classes_[0]
UNCLASSIFIED == -1

\* np.unique of a label vector: the labels that occur, in increasing order
SortedUnique(labels) ==
    CHOOSE f \in [Range(Cardinality(labels)) -> labels] :
        \A a, b \in Range(Cardinality(labels)) : a < b => f[a] < f[b]

\* ovr.fit fits one estimator per column of the binarized labels, and the
\* estimator answers 1 for the label its column marks: one column per class,
\* but a single column, marking classes[1], when there are two classes
LabelBinarizerColumns(classes) ==
    IF Cardinality(DOMAIN classes) = 2
    THEN [e \in {0} |-> classes[1]]
    ELSE [e \in DOMAIN classes |-> classes[e]]

\* the rows sample_predictions_per_ovr_estimator can hold: one 0/1 vote per
\* fitted OVR estimator
OvrVoteRows(n_estimators) == [Range(n_estimators) -> {0, 1}]

\* the rows when there is one OVR estimator per class
OvrRows == OvrVoteRows(NumClasses)

\* number of OVO estimators: one per unordered pair of classes
NumPairs == (NumClasses * (NumClasses - 1)) \div 2

\* what the OVO estimators predict for a batch of n samples: pred[k][s]
OvoPredictions(n) == [Range(NumPairs) -> [Range(n) -> {0, 1}]]

----------------------------------------------------------------------------
(* Phase 1, lines 516-523 *)

\* line 520: only one estimator's decision is positive
Phase1Assigns_AtLeastOne(row) == NpSum(row) >= 1
Phase1Assigns(row) == NpSum(row) = 1

\* line 521: the entry of ovr.classes_ at the index of that estimator
Phase1Class(classes, row) == classes[FirstNonzero(row)]

----------------------------------------------------------------------------
(* get_ovo_estimators_prediction, lines 610-630 *)

\* lines 619-620: estimator k, the pair (i, j), votes for i on 0 and for j on 1
OvoAddVotes_Reversed(v, pred, i, j, k) ==
    [s \in DOMAIN v |-> [c \in DOMAIN v[s] |->
        v[s][c] + (IF c = j /\ pred[k][s] = 0 THEN 1 ELSE 0)
                + (IF c = i /\ pred[k][s] = 1 THEN 1 ELSE 0)]]
OvoAddVotes(v, pred, i, j, k) ==
    [s \in DOMAIN v |-> [c \in DOMAIN v[s] |->
        v[s][c] + (IF c = i /\ pred[k][s] = 0 THEN 1 ELSE 0)
                + (IF c = j /\ pred[k][s] = 1 THEN 1 ELSE 0)]]

\* lines 614-621: the nested loop over the pairs, k running along
RECURSIVE OvoVoteLoop(_, _, _, _, _, _)
OvoVoteLoop(pred, n_classes, v, i, j, k) ==
    IF i >= n_classes THEN v
    ELSE IF j >= n_classes THEN OvoVoteLoop(pred, n_classes, v, i + 1, i + 2, k)
    ELSE OvoVoteLoop(pred, n_classes, OvoAddVotes(v, pred, i, j, k), i, j + 1, k + 1)

\* lines 610-621: the tally of a batch of n_samples, from np.zeros
OvoVotes(pred, classes, n_samples) ==
    LET n_classes == Cardinality(DOMAIN classes)
        zeros == [s \in Range(n_samples) |-> [c \in Range(n_classes) |-> 0]]
    IN  OvoVoteLoop(pred, n_classes, zeros, 0, 1, 0)

\* line 624: all places with maximum votes, per sample
OvoMaxima(v) == [s \in DOMAIN v |-> [c \in DOMAIN v[s] |-> v[s][c] = NpMax(v[s])]]

\* lines 627-630.  The value is the scalar -1, or the array of the winners'
\* classes: scalar tells which, data holds the entries.
OvoReturn_NoTieCheck(v, classes) ==
    [scalar |-> FALSE, data |-> [s \in DOMAIN v |-> classes[NpArgmax(v[s])]]]
OvoReturn(v, classes) ==
    IF \E s \in DOMAIN v : CountTrue(OvoMaxima(v)[s]) > 1
    THEN [scalar |-> TRUE, data |-> [s \in {0} |-> UNCLASSIFIED]]
    ELSE [scalar |-> FALSE, data |-> [s \in DOMAIN v |-> classes[NpArgmax(v[s])]]]

GetOvoEstimatorsPrediction(pred, classes, n_samples) ==
    OvoReturn(OvoVotes(pred, classes, n_samples), classes)

\* line 541, y_predict_ovo <> -1 on the scalar or the one-element array
DiffersFromSentinel(v) == v.data[0] # UNCLASSIFIED

----------------------------------------------------------------------------
(* the fractions of lines 527-529 and 546-548, as numerators over len(y_test) *)

\* np.sum(y_test_predict == y_test)
CorrectCount(p, y) == CountTrue([i \in DOMAIN p |-> p[i] = y[i]])

\* len(filter(lambda x: x <> -1, y_test_predict[y_test_predict <> y_test]))
IncorrectCount_KeepsSentinel(p, y) == Cardinality({i \in DOMAIN p : p[i] # y[i]})
IncorrectCount(p, y) == Cardinality({i \in DOMAIN p : p[i] # y[i] /\ p[i] # UNCLASSIFIED})

\* np.sum(y_test_predict == -1)
UnclassifiedCount(p) == CountTrue([i \in DOMAIN p |-> p[i] = UNCLASSIFIED])

\* metrics.accuracy_score(y_test_predict, y_test): the exact matches
AccuracyCount_OverlooksUnclassified(p, y) ==
    Cardinality({i \in DOMAIN p : p[i] = y[i] \/ p[i] = UNCLASSIFIED})
AccuracyCount(p, y) == Cardinality({i \in DOMAIN p : p[i] = y[i]})

----------------------------------------------------------------------------
(* hybrid_classification_for_fold, lines 479-553, one action per step *)

NoValue == [scalar |-> TRUE, data |-> << >>]

InitFoldVars ==
    /\ ovr_classes = << >>
    /\ ovr_positive = << >>
    /\ ovr_estimators = 0
    /\ ovo_estimators = 0
    /\ index = 0
    /\ sample_prediction = << >>
    /\ y_test_predict = << >>
    /\ test_indices_unclassified_in_phase1 = << >>
    /\ p2pos = 1
    /\ ovo_pred = << >>
    /\ votes = << >>
    /\ y_predict_ovo = NoValue
    /\ after_phase1 = << >>
    /\ after_phase2 = << >>
    /\ fold_result = << >>

InitRunIdle ==
    /\ rpc = "idle"
    /\ class_count = << >>
    /\ fold = 0
    /\ fold_calls = 0
    /\ results = << >>
    /\ printed = << >>
    /\ returned = << >>
    /\ exception = "none"

\* the fold is entered with the test partition's labels
Init ==
    /\ pc = "fit_ovr"
    /\ y_test \in [Range(MaxTest) -> ClassLabels]
    /\ y_train_labels = ClassLabels
    /\ InitFoldVars
    /\ InitRunIdle

\* lines 497-517: fit the OVR ensemble (ovr.classes_, ovr.estimators_), then the
\* empty list and the vector of -1
FitOvr_FitsBoth ==
    /\ pc = "fit_ovr"
    /\ ovr_classes' = SortedUnique(y_train_labels)
    /\ ovr_positive' = LabelBinarizerColumns(SortedUnique(y_train_labels))
    /\ ovr_estimators' = Cardinality(DOMAIN LabelBinarizerColumns(SortedUnique(y_train_labels)))
    /\ ovo_estimators' = NumPairs
    /\ test_indices_unclassified_in_phase1' = << >>
    /\ y_test_predict' = [i \in DOMAIN y_test |-> UNCLASSIFIED]
    /\ index' = 0
    /\ pc' = IF Cardinality(DOMAIN y_test) = 0 THEN "score1" ELSE "phase1"
    /\ UNCHANGED <<y_test, y_train_labels, sample_prediction, p2pos, ovo_pred, votes,
                   y_predict_ovo, after_phase1, after_phase2, fold_result, runVars>>
FitOvr ==
    /\ pc = "fit_ovr"
    /\ ovr_classes' = SortedUnique(y_train_labels)
    /\ ovr_positive' = LabelBinarizerColumns(SortedUnique(y_train_labels))
    /\ ovr_estimators' = Cardinality(DOMAIN LabelBinarizerColumns(SortedUnique(y_train_labels)))
    /\ test_indices_unclassified_in_phase1' = << >>
    /\ y_test_predict' = [i \in DOMAIN y_test |-> UNCLASSIFIED]
    /\ index' = 0
    /\ pc' = IF Cardinality(DOMAIN y_test) = 0 THEN "score1" ELSE "phase1"
    /\ UNCHANGED <<y_test, y_train_labels, ovo_estimators, sample_prediction, p2pos, ovo_pred, votes,
                   y_predict_ovo, after_phase1, after_phase2, fold_result, runVars>>

\* lines 519-523: one iteration of the Phase 1 loop, on the votes of sample index
Phase1Step ==
    /\ pc = "phase1"
    /\ \E row \in OvrVoteRows(ovr_estimators) :
        /\ sample_prediction' = row
        /\ IF Phase1Assigns(row)
           THEN /\ y_test_predict' =
                       [y_test_predict EXCEPT ![index] = Phase1Class(ovr_classes, row)]
                /\ UNCHANGED test_indices_unclassified_in_phase1
           ELSE /\ test_indices_unclassified_in_phase1' =
                       Append(test_indices_unclassified_in_phase1, index)
                /\ UNCHANGED y_test_predict
    /\ index' = index + 1
    /\ pc' = IF index + 1 = Cardinality(DOMAIN y_test) THEN "score1" ELSE "phase1"
    /\ UNCHANGED <<y_test, ovrVars, ovr_estimators, ovo_estimators, p2pos, ovo_pred, votes,
                   y_predict_ovo, after_phase1, after_phase2, fold_result, runVars>>

\* lines 527-529; the row of the Phase 1 loop is not read again
Score1 ==
    /\ pc = "score1"
    /\ after_phase1' = <<CorrectCount(y_test_predict, y_test),
                         IncorrectCount(y_test_predict, y_test),
                         UnclassifiedCount(y_test_predict)>>
    /\ sample_prediction' = << >>
    /\ pc' = "fit_ovo"
    /\ UNCHANGED <<y_test, ovrVars, ovr_estimators, ovo_estimators, index,
                   y_test_predict, test_indices_unclassified_in_phase1, p2pos, ovo_pred,
                   votes, y_predict_ovo, after_phase2, fold_result, runVars>>

\* lines 534-537: fit the OVO ensemble
FitOvo ==
    /\ pc = "fit_ovo"
    /\ ovo_estimators' = NumPairs
    /\ p2pos' = 1
    /\ pc' = IF Len(test_indices_unclassified_in_phase1) = 0 THEN "score2" ELSE "phase2"
    /\ UNCHANGED <<y_test, ovrVars, ovr_estimators, index, sample_prediction, y_test_predict,
                   test_indices_unclassified_in_phase1, ovo_pred, votes, y_predict_ovo,
                   after_phase1, after_phase2, fold_result, runVars>>

\* line 539: the indices the Phase 2 loop runs over
Phase2Indices_AllSamples == [i \in 1 .. Cardinality(DOMAIN y_test) |-> i - 1]
Phase2Indices == test_indices_unclassified_in_phase1

\* what get_ovo_estimators_prediction can do on a batch of one sample: what the
\* estimators predict (line 617), the tally it builds and the value it returns
OvoCalls ==
    {[pred |-> pred,
      votes |-> OvoVotes(pred, classes_, 1),
      value |-> GetOvoEstimatorsPrediction(pred, classes_, 1)] : pred \in OvoPredictions(1)}

\* lines 539-542: one iteration of the Phase 2 loop, on a batch of one sample
Phase2Step_WholeBatch ==
    /\ pc = "phase2"
    /\ \E pred \in OvoPredictions(Len(Phase2Indices)) :
        LET value == GetOvoEstimatorsPrediction(pred, classes_, Len(Phase2Indices))
        IN  /\ ovo_pred' = pred
            /\ votes' = OvoVotes(pred, classes_, Len(Phase2Indices))
            /\ y_predict_ovo' = value
            /\ IF DiffersFromSentinel(value)
               THEN y_test_predict' =
                       [s \in DOMAIN y_test_predict |->
                           IF \E n \in 1 .. Len(Phase2Indices) : Phase2Indices[n] = s
                           THEN value.data[(CHOOSE n \in 1 .. Len(Phase2Indices) :
                                               Phase2Indices[n] = s) - 1]
                           ELSE y_test_predict[s]]
               ELSE UNCHANGED y_test_predict
    /\ p2pos' = Len(Phase2Indices) + 1
    /\ pc' = "score2"
    /\ UNCHANGED <<y_test, ovrVars, ovr_estimators, ovo_estimators, index, sample_prediction,
                   test_indices_unclassified_in_phase1, after_phase1, after_phase2,
                   fold_result, runVars>>
Phase2Step ==
    /\ pc = "phase2"
    /\ \E call \in OvoCalls :
        /\ ovo_pred' = call.pred
        /\ votes' = call.votes
        /\ y_predict_ovo' = call.value
        /\ IF DiffersFromSentinel(call.value)
           THEN y_test_predict' =
                   [y_test_predict EXCEPT ![Phase2Indices[p2pos]] = call.value.data[0]]
           ELSE UNCHANGED y_test_predict
    /\ p2pos' = p2pos + 1
    /\ pc' = IF p2pos + 1 > Len(Phase2Indices) THEN "score2" ELSE "phase2"
    /\ UNCHANGED <<y_test, ovrVars, ovr_estimators, ovo_estimators, index, sample_prediction,
                   test_indices_unclassified_in_phase1, after_phase1, after_phase2,
                   fold_result, runVars>>

\* the array of line 552
FoldArray(acc, a1, a2) == <<acc, a1[1], a2[1], a1[2], a2[2], a1[3], a2[3]>>

\* lines 546-553
Score2 ==
    /\ pc = "score2"
    /\ LET a2 == <<CorrectCount(y_test_predict, y_test),
                   IncorrectCount(y_test_predict, y_test),
                   UnclassifiedCount(y_test_predict)>>
       IN  /\ after_phase2' = a2
           /\ fold_result' = FoldArray(AccuracyCount(y_test_predict, y_test), after_phase1, a2)
    /\ pc' = "done"
    /\ UNCHANGED <<y_test, ovrVars, ovr_estimators, ovo_estimators, index, sample_prediction,
                   y_test_predict, test_indices_unclassified_in_phase1, p2pos, ovo_pred,
                   votes, y_predict_ovo, after_phase1, runVars>>

Next == FitOvr \/ Phase1Step \/ Score1 \/ FitOvo \/ Phase2Step \/ Score2

Spec == Init /\ [][Next]_vars

----------------------------------------------------------------------------
(* Phase 1 of a fold when the number of classes in the data varies from 2 up: *)
(* lines 497-529, with the same actions.  The labels are those of a           *)
(* LabelEncoder, 0..C-1, and a stratified split leaves every class in the     *)
(* train partition.                                                           *)

InitOvr ==
    /\ pc = "fit_ovr"
    /\ y_train_labels \in {Range(n) : n \in 2 .. NumClasses}
    /\ y_test \in [Range(MaxTest) -> y_train_labels]
    /\ InitFoldVars
    /\ InitRunIdle

NextOvr == FitOvr \/ Phase1Step \/ Score1

SpecOvr == InitOvr /\ [][NextOvr]_vars

----------------------------------------------------------------------------
(* a whole fold as hybrid_classification sees it: the array it returns *)

\* lines 519-523 for one sample: its entry of y_test_predict after Phase 1
Phase1Outcome(row) == IF Phase1Assigns(row) THEN Phase1Class(classes_, row) ELSE UNCLASSIFIED

\* lines 539-542 for one recorded sample: its entry after Phase 2
Phase2Outcome(pred) ==
    LET r == GetOvoEstimatorsPrediction(pred, classes_, 1)
    IN  IF DiffersFromSentinel(r) THEN r.data[0] ELSE UNCLASSIFIED

\* a test sample through both phases: its label, its entry after each phase
SampleCases ==
    {[y |-> y,
      p1 |-> Phase1Outcome(row),
      p2 |-> IF Phase1Assigns(row) THEN Phase1Outcome(row) ELSE Phase2Outcome(pred)] :
        row \in OvrRows, pred \in OvoPredictions(1), y \in ClassLabels}

\* lines 527-529 and 546-553 on the outcome vectors of a test partition
FoldReturn(case) ==
    LET y == [i \in DOMAIN case |-> case[i].y]
        p1 == [i \in DOMAIN case |-> case[i].p1]
        p2 == [i \in DOMAIN case |-> case[i].p2]
    IN  FoldArray(AccuracyCount(p2, y),
                  <<CorrectCount(p1, y), IncorrectCount(p1, y), UnclassifiedCount(p1)>>,
                  <<CorrectCount(p2, y), IncorrectCount(p2, y), UnclassifiedCount(p2)>>)

\* every array hybrid_classification_for_fold can return on MaxTest test samples
FoldResults == {FoldReturn(case) : case \in [Range(MaxTest) -> SampleCases]}

----------------------------------------------------------------------------
(* np.mean, scipy.stats.sem and the {0:2.3f} format, lines 14 and 469-475.  *)
(* A per-fold value is the double float(a[k]) / den (lines 527-529 and      *)
(* 546-550); np.mean and sem compute on doubles, and format prints the      *)
(* decimal nearest to the double, an exact halfway case going to the even   *)
(* digit.  Printed numbers are kept in thousandths.                         *)

(* Natural numbers of any size: sequences of digits in base 2^15, least      *)
(* significant first, with no leading zero; <<>> is zero.                   *)

LimbBase == 2 ^ 15

RECURSIVE LTrim(_)
LTrim(x) ==
    IF x = <<>> THEN <<>>
    ELSE IF x[Len(x)] = 0 THEN LTrim(SubSeq(x, 1, Len(x) - 1)) ELSE x

RECURSIVE LFromInt(_)
LFromInt(n) == IF n = 0 THEN <<>> ELSE <<n % LimbBase>> \o LFromInt(n \div LimbBase)

\* the value of x, for x below 2^31
RECURSIVE LToInt(_)
LToInt(x) == IF x = <<>> THEN 0 ELSE x[1] + LimbBase * LToInt(Tail(x))

LDigit(x, i) == IF i <= Len(x) THEN x[i] ELSE 0

RECURSIVE LAddFrom(_, _, _, _)
LAddFrom(x, y, i, carry) ==
    IF i > Len(x) /\ i > Len(y)
    THEN IF carry = 0 THEN <<>> ELSE <<carry>>
    ELSE LET t == LDigit(x, i) + LDigit(y, i) + carry
         IN  <<t % LimbBase>> \o LAddFrom(x, y, i + 1, t \div LimbBase)

LAdd(x, y) == LAddFrom(x, y, 1, 0)

RECURSIVE LSubFrom(_, _, _, _)
LSubFrom(x, y, i, borrow) ==
    IF i > Len(x) THEN <<>>
    ELSE LET t == x[i] - LDigit(y, i) - borrow
         IN  <<(t + LimbBase) % LimbBase>> \o LSubFrom(x, y, i + 1, IF t < 0 THEN 1 ELSE 0)

\* x - y, for x >= y
LSub(x, y) == LTrim(LSubFrom(x, y, 1, 0))

RECURSIVE LCmpAt(_, _, _)
LCmpAt(x, y, i) ==
    IF i = 0 THEN 0
    ELSE IF x[i] # y[i] THEN (IF x[i] > y[i] THEN 1 ELSE -1)
    ELSE LCmpAt(x, y, i - 1)

\* -1, 0 or 1 as x is less than, equal to or greater than y
LCmp(x, y) ==
    IF Len(x) # Len(y) THEN (IF Len(x) > Len(y) THEN 1 ELSE -1)
    ELSE LCmpAt(x, y, Len(x))

RECURSIVE LMulSmallFrom(_, _, _, _)
LMulSmallFrom(x, d, i, carry) ==
    IF i > Len(x) THEN (IF carry = 0 THEN <<>> ELSE <<carry>>)
    ELSE LET t == x[i] * d + carry
         IN  <<t % LimbBase>> \o LMulSmallFrom(x, d, i + 1, t \div LimbBase)

\* x * d, for d in 0 .. LimbBase
LMulSmall(x, d) == IF d = 0 THEN <<>> ELSE LMulSmallFrom(x, d, 1, 0)

\* x * LimbBase^k and x \div LimbBase^k
LShlLimbs(x, k) == IF x = <<>> THEN <<>> ELSE [i \in 1 .. k |-> 0] \o x
LShrLimbs(x, k) == IF k >= Len(x) THEN <<>> ELSE SubSeq(x, k + 1, Len(x))

RECURSIVE LMul(_, _)
LMul(x, y) ==
    IF y = <<>> \/ x = <<>> THEN <<>>
    ELSE LAdd(LMulSmall(x, y[1]), LShlLimbs(LMul(x, Tail(y)), 1))

\* x \div d for d in 1 .. LimbBase, from digit i down, r being the remainder so far
RECURSIVE LDivSmallAt(_, _, _, _)
LDivSmallAt(x, d, i, r) ==
    IF i = 0 THEN <<>>
    ELSE LET t == r * LimbBase + x[i]
         IN  Append(LDivSmallAt(x, d, i - 1, t % d), t \div d)

LDivSmall(x, d) == LTrim(LDivSmallAt(x, d, Len(x), 0))

\* x * 2^k, x \div 2^k and x % 2^k
LShl(x, k) == LShlLimbs(LMulSmall(x, 2 ^ (k % 15)), k \div 15)
LShr(x, k) == LDivSmall(LShrLimbs(x, k \div 15), 2 ^ (k % 15))
LLow(x, k) ==
    IF k \div 15 >= Len(x) THEN x
    ELSE LTrim(Append(SubSeq(x, 1, k \div 15), x[k \div 15 + 1] % (2 ^ (k % 15))))

\* the number of bits of d, for d in 0 .. LimbBase - 1
RECURSIVE BitLength(_)
BitLength(d) == IF d = 0 THEN 0 ELSE 1 + BitLength(d \div 2)

\* the number of bits of x
LBitLength(x) == IF x = <<>> THEN 0 ELSE 15 * (Len(x) - 1) + BitLength(x[Len(x)])

\* the number of zero bits at the low end of x, x # 0
RECURSIVE LTrailingZeros(_, _)
LTrailingZeros(x, i) ==
    IF x[i] = 0 THEN 15 + LTrailingZeros(x, i + 1)
    ELSE CHOOSE k \in 0 .. 14 : x[i] % (2 ^ k) = 0 /\ x[i] % (2 ^ (k + 1)) # 0

\* the greatest d in lo..hi with y * d <= r
RECURSIVE LQuotientDigit(_, _, _, _)
LQuotientDigit(lo, hi, r, y) ==
    IF lo >= hi THEN lo
    ELSE LET mid == (lo + hi + 1) \div 2
         IN  IF LCmp(LMulSmall(y, mid), r) <= 0
             THEN LQuotientDigit(mid, hi, r, y)
             ELSE LQuotientDigit(lo, mid - 1, r, y)

\* long division of the digits i, i-1, .. 1 of x by y, r being the remainder so far
RECURSIVE LDivAt(_, _, _, _)
LDivAt(x, y, i, r) ==
    IF i = 0 THEN [q |-> <<>>, r |-> r]
    ELSE LET r2 == LTrim(<<x[i]>> \o r)
             d == LQuotientDigit(0, LimbBase - 1, r2, y)
             rest == LDivAt(x, y, i - 1, LSub(r2, LMulSmall(y, d)))
         IN  [q |-> Append(rest.q, d), r |-> rest.r]

\* quotient and remainder of x by y, y # 0
LDivMod(x, y) ==
    LET d == LDivAt(x, y, Len(x), <<>>)
    IN  [q |-> LTrim(d.q), r |-> d.r]

\* the greatest d in lo..hi with (s * LimbBase + d)^2 <= x
RECURSIVE LRootDigit(_, _, _, _)
LRootDigit(lo, hi, s, x) ==
    IF lo >= hi THEN lo
    ELSE LET mid == (lo + hi + 1) \div 2
             t == <<mid>> \o s
         IN  IF LCmp(LMul(t, t), x) <= 0
             THEN LRootDigit(mid, hi, s, x)
             ELSE LRootDigit(lo, mid - 1, s, x)

\* the integer part of sqrt(x), j digits of it still to find after the digits s
RECURSIVE LSqrtAt(_, _, _)
LSqrtAt(x, s, j) ==
    IF j = 0 THEN s
    ELSE LET d == LRootDigit(0, LimbBase - 1, s, LShrLimbs(x, 2 * (j - 1)))
         IN  LSqrtAt(x, LTrim(<<d>> \o s), j - 1)

\* the integer part of the square root of x
LSqrt(x) == LSqrtAt(x, <<>>, (Len(x) + 1) \div 2)

(* IEEE-754 doubles as the program's floats: [neg, m, e] is the number      *)
(* (-1)^neg * m * 2^e, m odd of at most 53 bits, or zero when m = <<>>.      *)
(* The values of the program stay far from overflow and underflow.          *)

FZero == [neg |-> FALSE, m |-> <<>>, e |-> 0]

FCanon(neg, m, e) ==
    IF m = <<>> THEN FZero
    ELSE LET z == LTrailingZeros(m, 1)
         IN  [neg |-> neg, m |-> LShr(m, z), e |-> e + z]

\* the double nearest to m * 2^e, a halfway case going to the even mantissa
FRound(neg, m, e) ==
    IF LBitLength(m) <= 53 THEN FCanon(neg, m, e)
    ELSE LET k == LBitLength(m) - 53
             q == LShr(m, k)
             c == LCmp(LLow(m, k), LShl(<<1>>, k - 1))
             up == c > 0 \/ (c = 0 /\ q[1] % 2 = 1)
         IN  FCanon(neg, IF up THEN LAdd(q, <<1>>) ELSE q, e + k)

\* float(n), n >= 0
FFromInt(n) == FCanon(FALSE, LFromInt(n), 0)

FNeg(x) == IF x.m = <<>> THEN x ELSE [x EXCEPT !.neg = ~x.neg]

\* x + y
FAdd(x, y) ==
    IF x.m = <<>> THEN y
    ELSE IF y.m = <<>> THEN x
    ELSE LET e == IF x.e < y.e THEN x.e ELSE y.e
             a == LShl(x.m, x.e - e)
             b == LShl(y.m, y.e - e)
             c == LCmp(a, b)
         IN  IF x.neg = y.neg THEN FRound(x.neg, LAdd(a, b), e)
             ELSE IF c = 0 THEN FZero
             ELSE IF c > 0 THEN FRound(x.neg, LSub(a, b), e)
             ELSE FRound(y.neg, LSub(b, a), e)

\* x - y
FSub(x, y) == FAdd(x, FNeg(y))

\* x * y
FMul(x, y) == FRound(x.neg # y.neg, LMul(x.m, y.m), x.e + y.e)

\* x / y, y # 0: the quotient to 55 bits or more, and one more bit that is set
\* when the division left a remainder
FDiv(x, y) ==
    IF x.m = <<>> THEN FZero
    ELSE LET want == 55 + LBitLength(y.m) - LBitLength(x.m)
             sh == IF want > 0 THEN want ELSE 0
             d == LDivMod(LShl(x.m, sh), y.m)
         IN  FRound(x.neg # y.neg,
                    LAdd(LShl(d.q, 1), IF d.r = <<>> THEN <<>> ELSE <<1>>),
                    x.e - y.e - sh - 1)

\* sqrt(x), x >= 0: the root to 55 bits or more, and one more bit that is set
\* when the root is not exact
FSqrt(x) ==
    IF x.m = <<>> THEN FZero
    ELSE LET want == IF LBitLength(x.m) < 110 THEN 110 - LBitLength(x.m) ELSE 0
             sh == IF (x.e - want) % 2 = 0 THEN want ELSE want + 1
             sq == LShl(x.m, sh)
             s == LSqrt(sq)
         IN  FRound(FALSE,
                    LAdd(LShl(s, 1), IF LMul(s, s) = sq THEN <<>> ELSE <<1>>),
                    (x.e - sh) \div 2 - 1)

\* "{0:2.3f}".format(x), x >= 0, in thousandths: the integer nearest to
\* 1000 * x, a halfway case going to the even one
FFormat3(x) ==
    LET t == LMulSmall(x.m, 1000)
    IN  IF x.e >= 0 THEN LToInt(LShl(t, x.e))
        ELSE LET k == 0 - x.e
                 q == LToInt(LShr(t, k))
                 c == LCmp(LLow(t, k), LShl(<<1>>, k - 1))
             IN  q + (IF c > 0 \/ (c = 0 /\ q % 2 = 1) THEN 1 ELSE 0)

\* the per-fold values float(a[k]) / den
FoldValues(a, den) == [k \in 1 .. Len(a) |-> FDiv(FFromInt(a[k]), FFromInt(den))]

\* x[from] + .. + x[to] added to res from left to right
RECURSIVE NpAddTail(_, _, _, _)
NpAddTail(x, from, to, res) ==
    IF from > to THEN res ELSE NpAddTail(x, from + 1, to, FAdd(res, x[from]))

\* the j-th of the eight running sums of np.add.reduce over b + 1 blocks of 8
RECURSIVE NpAddLane(_, _, _)
NpAddLane(x, j, b) ==
    IF b = 0 THEN x[j] ELSE FAdd(NpAddLane(x, j, b - 1), x[8 * b + j])

\* np.add.reduce over a one-dimensional array of doubles (numpy's pairwise
\* summation): in order below 8 elements, eight running sums up to 128,
\* halves above.  A numpy that adds in order throughout returns the same
\* double whenever the partial sums are exact, as they are for per-fold
\* values with a power of two as denominator.
RECURSIVE NpAddReduce(_)
NpAddReduce(x) ==
    LET n == Len(x)
    IN  IF n < 8 THEN NpAddTail(x, 1, n, FZero)
        ELSE IF n <= 128
        THEN LET b == n \div 8 - 1
                 r == [j \in 1 .. 8 |-> NpAddLane(x, j, b)]
             IN  NpAddTail(x, 8 * (b + 1) + 1, n,
                           FAdd(FAdd(FAdd(r[1], r[2]), FAdd(r[3], r[4])),
                                FAdd(FAdd(r[5], r[6]), FAdd(r[7], r[8]))))
        ELSE LET h == (n \div 2) - ((n \div 2) % 8)
             IN  FAdd(NpAddReduce(SubSeq(x, 1, h)), NpAddReduce(SubSeq(x, h + 1, n)))

\* np.mean(x)
NpMean(x) == FDiv(NpAddReduce(x), FFromInt(Len(x)))

\* np.std(x, ddof=ddof): sqrt(sum((x - mean)^2) / (n - ddof))
NpStd(x, ddof) ==
    LET mean == NpMean(x)
        dev == [k \in 1 .. Len(x) |-> FSub(x[k], mean)]
    IN  FSqrt(FDiv(NpAddReduce([k \in 1 .. Len(x) |-> FMul(dev[k], dev[k])]),
                   FFromInt(Len(x) - ddof)))

\* scipy.stats.sem(x, ddof=ddof): np.std(x, ddof=ddof) / np.sqrt(n)
ScipySem(x, ddof) == FDiv(NpStd(x, ddof), FSqrt(FFromInt(Len(x))))

RECURSIVE SeqSum(_, _)
SeqSum(a, n) == IF n = 0 THEN 0 ELSE a[n] + SeqSum(a, n - 1)

\* num / den lies exactly halfway between two thousandths
HalfwayThousandth(num, den) ==
    (2000 * num) % den = 0 /\ ((2000 * num) \div den) % 2 = 1

\* "{0:2.3f}".format(float(num) / den).  The double is within 2^-53 of num/den
\* in relative terms, so it rounds to the thousandth nearest to num / den
\* unless num / den lies exactly halfway: then the digits of the double decide.
FormatFixed3(num, den) ==
    IF num <= 500000 /\ ~HalfwayThousandth(num, den)
    THEN (2000 * num + den) \div (2 * den)
    ELSE FFormat3(FDiv(FFromInt(num), FFromInt(den)))

\* "{0:2.3f}".format(np.mean(a)) for the per-fold values a[k] / den.  The
\* computed mean is within a few 2^-53 of the exact mean, which is a halfway
\* case or at least 1 / (2000 * n * den) away from one.
PrintedMean(a, den) ==
    IF /\ Len(a) <= 1000 /\ den <= 1000
       /\ ~HalfwayThousandth(SeqSum(a, Len(a)), Len(a) * den)
    THEN (2000 * SeqSum(a, Len(a)) + Len(a) * den) \div (2 * Len(a) * den)
    ELSE FFormat3(NpMean(FoldValues(a, den)))

\* the greatest h in lo..hi with h * h * den <= 4000000 * num
RECURSIVE FloorSqrtSearch(_, _, _, _)
FloorSqrtSearch(lo, hi, num, den) ==
    IF lo >= hi THEN lo
    ELSE LET mid == (lo + hi + 1) \div 2
         IN  IF mid * mid * den <= 4000000 * num
             THEN FloorSqrtSearch(mid, hi, num, den)
             ELSE FloorSqrtSearch(lo, mid - 1, num, den)

\* n^2 times the sum of squared deviations from the mean, in units of 1/den^2
RECURSIVE ScaledSquares(_, _, _)
ScaledSquares(a, k, total) ==
    IF k = 0 THEN 0
    ELSE (Len(a) * a[k] - total) * (Len(a) * a[k] - total) + ScaledSquares(a, k - 1, total)

\* "{1:2.3f}".format(sem(a, ddof=ddof)) for the per-fold values a[k] / den in
\* 0..1.  The exact value is sqrt(num / d) =< 1 / 2 with num and d below; h is
\* the integer part of 2000 times it.  The computed double is within a few
\* 2^-53 of the exact value, so it rounds to the thousandth nearest to the
\* exact value unless that is exactly halfway (h odd and h^2 * d = 4000000 *
\* num): then the digits of the double decide.
SemWithDdof(a, den, ddof) ==
    LET n == Len(a)
        d == n * n * den * den * (n - ddof) * n
        num == ScaledSquares(a, n, SeqSum(a, n))
        h == FloorSqrtSearch(0, 2000, num, d)
    IN  IF /\ n <= 4 /\ den <= 4 /\ d <= 536
           /\ ~(h % 2 = 1 /\ h * h * d = 4000000 * num)
        THEN (h + 1) \div 2
        ELSE FFormat3(ScipySem(FoldValues(a, den), ddof))

\* scipy.stats.sem(a): ddof defaults to 1
PrintedSem_Ddof0(a, den) == SemWithDdof(a, den, 0)
PrintedSem(a, den) == SemWithDdof(a, den, 1)

----------------------------------------------------------------------------
(* hybrid_classification, lines 458-477 *)

\* StratifiedShuffleSplit(y, ...) refuses a label vector in which some class
\* has fewer than 2 members
StratifiedShuffleSplitFails(cc) == \E c \in DOMAIN cc : cc[c] < 2

InitRun ==
    /\ pc = "idle"
    /\ y_test = << >>
    /\ y_train_labels = {}
    /\ InitFoldVars
    /\ rpc = "start"
    /\ class_count \in [Range(NumClasses) -> 1 .. MaxMembers]
    /\ fold = 0
    /\ fold_calls = 0
    /\ results = << >>
    /\ printed = << >>
    /\ returned = << >>
    /\ exception = "none"

\* lines 458-459: build the splitter, which may raise; then the empty list
Split_Unchecked ==
    /\ rpc = "start"
    /\ rpc' = "loop"
    /\ results' = << >>
    /\ UNCHANGED <<foldVars, class_count, fold, fold_calls, printed, returned, exception>>
Split ==
    /\ rpc = "start"
    /\ IF StratifiedShuffleSplitFails(class_count)
       THEN rpc' = "raised" /\ exception' = "ValueError" /\ UNCHANGED results
       ELSE rpc' = "loop" /\ results' = << >> /\ UNCHANGED exception
    /\ UNCHANGED <<foldVars, class_count, fold, fold_calls, printed, returned>>

\* line 461: the iterator cval yields n_iter = NUMFOLDS splits, then the loop ends
LoopExhausted_AfterFirst == fold >= 1
LoopExhausted == fold = NUMFOLDS

\* lines 461-462: one iteration whose fold returns its array
RunFold ==
    /\ rpc = "loop"
    /\ ~LoopExhausted
    /\ fold' = fold + 1
    /\ fold_calls' = fold_calls + 1
    /\ \E r \in FoldResults : results' = Append(results, r)
    /\ UNCHANGED <<foldVars, rpc, class_count, printed, returned, exception>>

\* lines 461-462: one iteration whose fold raises (a fit fails); nothing catches
\* it, so it leaves hybrid_classification
FoldRaise_Swallowed ==
    /\ rpc = "loop"
    /\ ~LoopExhausted
    /\ fold' = fold + 1
    /\ fold_calls' = fold_calls + 1
    /\ exception' = "FoldError"
    /\ UNCHANGED <<foldVars, rpc, class_count, results, printed, returned>>
FoldRaise ==
    /\ rpc = "loop"
    /\ ~LoopExhausted
    /\ fold' = fold + 1
    /\ fold_calls' = fold_calls + 1
    /\ exception' = "FoldError"
    /\ rpc' = "raised"
    /\ UNCHANGED <<foldVars, class_count, results, printed, returned>>

\* line 466 and 477: np.transpose(results), one array per metric
Transposed(res) == [m \in 1 .. 7 |-> [k \in 1 .. Len(res) |-> res[k][m]]]

\* lines 469-475: the metric each print statement reports, in order
PrintOrder == <<2, 3, 4, 5, 6, 7, 1>>

\* lines 464-477: the seven lines of mean (+/- sem), then the return
Reduce ==
    /\ rpc = "loop"
    /\ LoopExhausted
    /\ printed' = [l \in 1 .. 7 |->
                     [metric |-> PrintOrder[l],
                      mean |-> PrintedMean(Transposed(results)[PrintOrder[l]], MaxTest),
                      sem |-> PrintedSem(Transposed(results)[PrintOrder[l]], MaxTest)]]
    /\ returned' = Transposed(results)
    /\ rpc' = "done"
    /\ UNCHANGED <<foldVars, class_count, fold, fold_calls, results, exception>>

NextRun == Split \/ RunFold \/ FoldRaise \/ Reduce

SpecRun == InitRun /\ [][NextRun]_vars

----------------------------------------------------------------------------
(* what the claims speak of *)

\* number of positive votes in a row of OVR votes
PositiveVotes(row) == Cardinality({c \in DOMAIN row : row[c] = 1})

\* sample i was recorded for Phase 2
Recorded(i) ==
    \E k \in 1 .. Len(test_indices_unclassified_in_phase1) :
        test_indices_unclassified_in_phase1[k] = i

\* the classes that attain the maximum of a tally row
Leaders(t) == {c \in DOMAIN t : \A d \in DOMAIN t : t[d] <= t[c]}

\* entries of the outcome vector that hold the unclassified mark
Unmarked == {i \in DOMAIN y_test_predict : y_test_predict[i] = UNCLASSIFIED}

\* C1: after a Phase 1 iteration the sample it looked at is UNCLASSIFIED iff its
\* number of positive votes is not exactly 1; with exactly one positive vote it
\* holds the class of that estimator in ovr.classes_; and a sample is recorded
\* for Phase 2 exactly when it is UNCLASSIFIED.
C1_Phase1Rule ==
    (pc \in {"phase1", "score1"} /\ index > 0) =>
        /\ (y_test_predict[index - 1] = UNCLASSIFIED) <=> (PositiveVotes(sample_prediction) # 1)
        /\ PositiveVotes(sample_prediction) = 1 =>
              \E c \in DOMAIN sample_prediction :
                  sample_prediction[c] = 1 /\ y_test_predict[index - 1] = classes_[c]
        /\ \A j \in Range(index) : Recorded(j) <=> (y_test_predict[j] = UNCLASSIFIED)

C1_Witness ==
    /\ pc = "score1"
    /\ PositiveVotes(sample_prediction) >= 2
    /\ y_test_predict[index - 1] = UNCLASSIFIED
    /\ \E j \in DOMAIN y_test_predict : y_test_predict[j] \in ClassLabels

\* C2: after a Phase 2 iteration the sample it looked at is UNCLASSIFIED iff the
\* maximum of its tally is attained by two or more classes; otherwise it holds
\* the class whose tally is strictly greater than every other class's.
C2_Phase2Rule ==
    (pc \in {"phase2", "score2", "done"} /\ p2pos > 1) =>
        LET t == votes[0]
            idx == test_indices_unclassified_in_phase1[p2pos - 1]
        IN  /\ (y_test_predict[idx] = UNCLASSIFIED) <=> (Cardinality(Leaders(t)) >= 2)
            /\ (y_predict_ovo.data[0] = UNCLASSIFIED) <=> (Cardinality(Leaders(t)) >= 2)
            /\ Cardinality(Leaders(t)) < 2 =>
                  \E c \in DOMAIN t :
                      /\ \A d \in DOMAIN t \ {c} : t[d] < t[c]
                      /\ y_test_predict[idx] = classes_[c]
                      /\ y_predict_ovo.data[0] = classes_[c]

C2_Witness ==
    /\ pc = "score2"
    /\ Len(test_indices_unclassified_in_phase1) = 2
    /\ y_test_predict[test_indices_unclassified_in_phase1[1]] \in ClassLabels
    /\ Cardinality(Leaders(votes[0])) = NumClasses
    /\ y_test_predict[test_indices_unclassified_in_phase1[2]] = UNCLASSIFIED

\* C3: in each phase the correct, incorrect and unclassified counts add up to the
\* number of test samples, i.e. the three fractions add up to 1.
C3_FractionsSumToOne ==
    /\ after_phase1 # << >> =>
          after_phase1[1] + after_phase1[2] + after_phase1[3] = Cardinality(DOMAIN y_test)
    /\ after_phase2 # << >> =>
          after_phase2[1] + after_phase2[2] + after_phase2[3] = Cardinality(DOMAIN y_test)

C3_Witness ==
    /\ pc = "done"
    /\ after_phase1[3] = 2
    /\ after_phase2[2] = 1
    /\ after_phase2[3] = 1

\* C4: once Phase 1 is over, a step changes an entry of the outcome vector only
\* if the sample was recorded as unclassified in Phase 1 and still is unclassified.
C4_Phase2FrameRule ==
    [][pc \notin {"fit_ovr", "phase1"} =>
        \A i \in DOMAIN y_test_predict :
            y_test_predict'[i] # y_test_predict[i] =>
                (Recorded(i) /\ y_test_predict[i] = UNCLASSIFIED)]_vars

C4_Witness ==
    /\ pc = "done"
    /\ \E i \in DOMAIN y_test_predict : ~Recorded(i)
    /\ \E j \in DOMAIN y_test_predict : Recorded(j) /\ y_test_predict[j] # UNCLASSIFIED

\* the state part of C5
C5_SentinelInv ==
    /\ UNCLASSIFIED \notin ClassLabels
    /\ after_phase1 # << >> =>
          /\ after_phase1[3] = Len(test_indices_unclassified_in_phase1)
          /\ after_phase1[1] <= Cardinality(DOMAIN y_test) - Len(test_indices_unclassified_in_phase1)
    /\ after_phase2 # << >> =>
          after_phase2[1] <= Cardinality(DOMAIN y_test) - Cardinality(Unmarked)
    /\ p2pos > 1 => (y_predict_ovo.scalar <=> y_predict_ovo.data[0] \notin ClassLabels)

\* the step part of C5
C5_SentinelStep ==
    pc = "phase2" =>
        Cardinality(Unmarked') =
            Cardinality(Unmarked) - (IF Cardinality(Leaders(votes'[0])) = 1 THEN 1 ELSE 0)

\* C5: the unclassified mark is no class label; the samples counted as
\* unclassified after Phase 1 are exactly those recorded for Phase 2, none of
\* them counted as correct; get_ovo_estimators_prediction returns the mark only
\* as its scalar and a label otherwise; and a Phase 2 iteration removes one
\* mark from the outcome vector exactly when its tally has a single leader.
C5_SentinelDistinct == [](C5_SentinelInv) /\ [][C5_SentinelStep]_vars

C5_Witness ==
    /\ pc = "done"
    /\ \E i \in DOMAIN y_test_predict : y_test_predict[i] = 0 /\ y_test[i] # 0
    /\ \E j \in DOMAIN y_test_predict : y_test_predict[j] = UNCLASSIFIED /\ y_test[j] = 0

\* C6: the loop runs exactly NUMFOLDS times, each fold adding one array of seven
\* metrics, and nothing is printed or returned before all NUMFOLDS folds are in.
C6_ReduceAfterAllFolds ==
    /\ fold <= NUMFOLDS
    /\ Len(results) <= NUMFOLDS
    /\ \A k \in 1 .. Len(results) : Len(results[k]) = 7
    /\ (printed # << >> \/ returned # << >>) =>
          (rpc = "done" /\ fold_calls = NUMFOLDS /\ Len(results) = NUMFOLDS)
    /\ rpc = "done" => (Len(printed) = 7 /\ \A m \in 1 .. 7 : Len(returned[m]) = NUMFOLDS)

C6_Witness ==
    /\ rpc = "done"
    /\ Len(results) = NUMFOLDS
    /\ Len(printed) = 7
    /\ results[1] # results[NUMFOLDS]

\* the state part of C7
C7_FailedInv ==
    exception = "FoldError" => (rpc = "raised" /\ printed = << >> /\ returned = << >>)

\* the step part of C7
C7_FailedStep ==
    exception = "FoldError" => UNCHANGED <<fold, fold_calls, results, printed, returned>>

\* C7: once a fold has raised, the run is over: the exception has left
\* hybrid_classification, no further fold is called, no result is added, and
\* nothing is printed or returned.
C7_FoldFailureAborts == [](C7_FailedInv) /\ [][C7_FailedStep]_vars

C7_Witness ==
    /\ exception = "FoldError"
    /\ Len(results) >= 1
    /\ printed = << >>

\* C8: when a class of the label vector has fewer than 2 members the splitter
\* raises, and it does so before any fold is called.
C8_SplitFailsBeforeTraining ==
    (\E c \in DOMAIN class_count : class_count[c] < 2) =>
        /\ rpc \in {"start", "raised"}
        /\ rpc = "raised" => exception = "ValueError"
        /\ fold = 0
        /\ fold_calls = 0
        /\ results = << >>

C8_Witness ==
    /\ rpc = "raised"
    /\ exception = "ValueError"
    /\ fold_calls = 0
    /\ \E c \in DOMAIN class_count : class_count[c] = 1
    /\ \E c \in DOMAIN class_count : class_count[c] >= 2

\* the per-fold values of the metric a printed line reports
LineValues(l) == Transposed(results)[printed[l].metric]

\* sum of the squares of a sequence
RECURSIVE SeqSumSq(_, _)
SeqSumSq(a, n) == IF n = 0 THEN 0 ELSE a[n] * a[n] + SeqSumSq(a, n - 1)

\* n * sum(a^2) - sum(a)^2, which is n * den^2 times the sum of squared deviations
Spread(a) == Len(a) * SeqSumSq(a, Len(a)) - SeqSum(a, Len(a)) * SeqSum(a, Len(a))

\* p is a nearest thousandth of num / den: either neighbour when num / den
\* lies exactly halfway
NearestThousandth(p, num, den) ==
    /\ 2 * den * p - den <= 2000 * num
    /\ 2000 * num <= 2 * den * p + den

\* p is a nearest thousandth of sqrt(num / den): either neighbour when the
\* root lies exactly halfway
NearestThousandthOfRoot(p, num, den) ==
    /\ p >= 0
    /\ p > 0 => (2 * p - 1) * (2 * p - 1) * den <= 4000000 * num
    /\ 4000000 * num <= (2 * p + 1) * (2 * p + 1) * den

\* the seven printed lines report the seven metrics, each with the arithmetic
\* mean of its per-fold values
MeansReported ==
    /\ {printed[l].metric : l \in 1 .. 7} = 1 .. 7
    /\ \A l \in 1 .. 7 :
          NearestThousandth(printed[l].mean, SeqSum(LineValues(l), NUMFOLDS), NUMFOLDS * MaxTest)

\* C10 as stated: each line reports the mean and the standard error by the
\* population formula, sqrt(sum((x - mean)^2) / n) / sqrt(n).
C10_PopulationFormula ==
    rpc = "done" =>
        /\ MeansReported
        /\ \A l \in 1 .. 7 :
              NearestThousandthOfRoot(printed[l].sem, Spread(LineValues(l)),
                  NUMFOLDS * NUMFOLDS * MaxTest * MaxTest * NUMFOLDS)

\* C10 as amended: each line reports the mean and the standard error of the mean
\* with the sample standard deviation, sqrt(sum((x - mean)^2) / (n - 1)) / sqrt(n).
C10_SampleFormula ==
    rpc = "done" =>
        /\ MeansReported
        /\ \A l \in 1 .. 7 :
              NearestThousandthOfRoot(printed[l].sem, Spread(LineValues(l)),
                  NUMFOLDS * NUMFOLDS * MaxTest * MaxTest * (NUMFOLDS - 1))

C10_Witness ==
    /\ rpc = "done"
    /\ \E l \in 1 .. 7 : printed[l].sem > 0 /\ printed[l].mean > 0
    /\ \E l \in 1 .. 7 : printed[l].sem = 0

\* the pairs (i, j), i < j, of class indices
ClassPairs == {p \in Range(NumClasses) \X Range(NumClasses) : p[1] < p[2]}

\* how many pairs come before (i, j) when i runs over the classes and j over i+1..C-1
PairsBefore(p) ==
    Cardinality({q \in ClassPairs : q[1] < p[1] \/ (q[1] = p[1] /\ q[2] < p[2])})

\* the pair at each position k of that enumeration
PairOrder == [k \in Range(NumPairs) |-> CHOOSE p \in ClassPairs : PairsBefore(p) = k]

PairAt(k) == PairOrder[k]

\* the estimators whose prediction for the sample is a vote for class index c
VotersFor(prediction, c) ==
    {k \in DOMAIN prediction :
        \/ PairAt(k)[1] = c /\ prediction[k][0] = 0
        \/ PairAt(k)[2] = c /\ prediction[k][0] = 1}

\* the tally the predictions for a sample amount to, for all they can be
VoteCounts ==
    [prediction \in OvoPredictions(1) |->
        [c \in Range(NumClasses) |-> Cardinality(VotersFor(prediction, c))]]

\* C11: after every call of get_ovo_estimators_prediction, each of the
\* C*(C-1)/2 estimators has been consulted, and the tally of a class is the
\* number of estimators k, read as the pair (i, j) at position k of the
\* enumeration i = 0..C-1, j = i+1..C-1, that predicted 0 with i the class or 1
\* with j the class; nothing of an earlier call is left in the tally, so the
\* tally adds up to the number of estimators.
C11_TallyConstruction ==
    (pc \in {"phase2", "score2", "done"} /\ p2pos > 1) =>
        /\ DOMAIN ovo_pred = Range(NumPairs)
        /\ ovo_estimators = NumPairs
        /\ votes[0] = VoteCounts[ovo_pred]
        /\ NpSum(votes[0]) = NumPairs

C11_Witness ==
    /\ pc = "score2"
    /\ p2pos = 3
    /\ ovo_pred[0][0] = 1
    /\ ovo_pred[NumPairs - 1][0] = 0
    /\ votes[0][1] >= 1
    /\ votes[0][NumClasses - 1] <= NumClasses - 2

\* the class indices that get more votes from a sample's predictions than any other
SoleWinners(prediction) ==
    {c \in Range(NumClasses) :
        \A d \in Range(NumClasses) \ {c} :
            Cardinality(VotersFor(prediction, d)) < Cardinality(VotersFor(prediction, c))}

\* what a sample's own pairwise predictions say about it, for all they can be
OwnOutcomes ==
    [prediction \in OvoPredictions(1) |->
        IF SoleWinners(prediction) = {} THEN UNCLASSIFIED
        ELSE classes_[CHOOSE c \in SoleWinners(prediction) : TRUE]]

\* the same, read from the predictions the latest call has got for its sample
OwnOutcome(prediction) ==
    OwnOutcomes[[k \in DOMAIN prediction |-> [s \in {0} |-> prediction[k][0]]]]

\* the state part of C12
C12_OwnOutcomeInv ==
    (pc \in {"phase2", "score2", "done"} /\ p2pos > 1) =>
        y_test_predict[test_indices_unclassified_in_phase1[p2pos - 1]] = OwnOutcome(ovo_pred)

\* the step part of C12
C12_OthersStep ==
    pc = "phase2" =>
        \A s \in DOMAIN y_test_predict :
            s # test_indices_unclassified_in_phase1[p2pos] =>
                y_test_predict'[s] = y_test_predict[s]

\* C12: a Phase 2 iteration leaves in the entry of its sample what that sample's
\* own pairwise predictions say (the sole winner, or UNCLASSIFIED on a tie),
\* whatever happened to the samples before it, and changes no other entry: a
\* tie or a winner of one deferred sample never changes another's outcome.
C12_PerSampleIndependence == [](C12_OwnOutcomeInv) /\ [][C12_OthersStep]_vars

C12_Witness ==
    /\ pc = "score2"
    /\ Len(test_indices_unclassified_in_phase1) = 2
    /\ y_test_predict[test_indices_unclassified_in_phase1[1]] = UNCLASSIFIED
    /\ y_test_predict[test_indices_unclassified_in_phase1[2]] = OwnOutcome(ovo_pred)
    /\ OwnOutcome(ovo_pred) # UNCLASSIFIED

\* Phase 1 has decided on at least one test sample
Phase1Begun == index > 0

\* Phase 1 has decided on every test sample
Phase1Complete == index = Cardinality(DOMAIN y_test)

\* Phase 2 has made at least one call of get_ovo_estimators_prediction
Phase2Begun == p2pos > 1

\* Phase 2 has gone through all the samples Phase 1 recorded
Phase2Complete == p2pos = Len(test_indices_unclassified_in_phase1) + 1

\* what C13 says besides the place of training: Phase 1 is complete before
\* Phase 2 starts, and the metrics of a phase are computed after its predictions
PredictThenScore ==
    /\ Phase2Begun => Phase1Complete
    /\ after_phase1 # << >> => Phase1Complete
    /\ after_phase2 # << >> => (Phase1Complete /\ Phase2Complete /\ after_phase1 # << >>)
    /\ fold_result # << >> => after_phase2 # << >>

\* C13 as stated: the OVR and the OVO ensemble are both built before any
\* Phase 1 prediction, Phase 1 completes before Phase 2 starts, and metrics are
\* computed only after prediction.
C13_BothBuiltBeforePhase1 ==
    /\ (pc = "phase1" \/ Phase1Begun) =>
          (ovr_estimators = NumClasses /\ ovo_estimators = NumPairs)
    /\ PredictThenScore

\* C13 as amended: the OVR ensemble is built before any Phase 1 prediction; the
\* OVO ensemble is built only after Phase 1 is complete and its metrics are
\* computed, and before any Phase 2 prediction; Phase 1 completes before
\* Phase 2 starts, and the metrics of a phase are computed after its predictions.
C13_OvoBuiltAfterPhase1 ==
    /\ (pc = "phase1" \/ Phase1Begun) => ovr_estimators = NumClasses
    /\ (pc = "phase1" \/ ~Phase1Complete \/ after_phase1 = << >>) => ovo_estimators = 0
    /\ (pc = "phase2" \/ Phase2Begun) => ovo_estimators = NumPairs
    /\ PredictThenScore

C13_Witness ==
    /\ pc = "phase2"
    /\ Phase2Begun
    /\ ~Phase2Complete
    /\ ovo_estimators = NumPairs
    /\ after_phase1 # << >>
    /\ after_phase2 = << >>

\* C14: once the OVR ensemble is fitted on C >= 2 classes it has exactly C
\* estimators, estimator c answering 1 for the c-th of the sorted labels; the
\* vote vector of a sample has C entries, and a sample with a sole positive
\* vote at index c holds classes[c], the class of the estimator that voted.
C14_OneEstimatorPerClass ==
    (pc \in {"phase1", "score1", "fit_ovo"} /\ Cardinality(y_train_labels) >= 2) =>
        /\ ovr_estimators = Cardinality(y_train_labels)
        /\ DOMAIN ovr_positive = DOMAIN ovr_classes
        /\ \A c \in DOMAIN ovr_positive : ovr_positive[c] = ovr_classes[c]
        /\ \A a, b \in DOMAIN ovr_classes : a < b => ovr_classes[a] < ovr_classes[b]
        /\ (index > 0 /\ sample_prediction # << >>) =>
              /\ DOMAIN sample_prediction = Range(Cardinality(y_train_labels))
              /\ PositiveVotes(sample_prediction) = 1 =>
                    \E c \in DOMAIN sample_prediction :
                        /\ sample_prediction[c] = 1
                        /\ y_test_predict[index - 1] = ovr_classes[c]
                        /\ y_test_predict[index - 1] = ovr_positive[c]

\* C15: the accuracy a fold returns as its first metric equals the
\* correct-after-phase-2 fraction it returns as its third: both count the samples
\* whose outcome is their true label, no UNCLASSIFIED outcome is among these, and
\* so accuracy, incorrect and unclassified after Phase 2 add up to all samples.
C15_AccuracyIsCorrectAfterPhase2 ==
    fold_result # << >> =>
        /\ fold_result[1] = fold_result[3]
        /\ fold_result[1] =
              Cardinality({s \in DOMAIN y_test : y_test_predict[s] = y_test[s]
                                                  /\ y_test_predict[s] # UNCLASSIFIED})
        /\ fold_result[1] + fold_result[5] + fold_result[7] = Cardinality(DOMAIN y_test)

C15_Witness ==
    /\ pc = "done"
    /\ fold_result[1] >= 1
    /\ fold_result[7] >= 1
    /\ fold_result[2] = 0

\* C16: from Phase 1 to Phase 2 the unclassified count does not grow and the
\* correct and incorrect counts do not shrink; what the unclassified count
\* loses is what the other two gain together; and a sample that is
\* UNCLASSIFIED after Phase 2 is one that Phase 1 left UNCLASSIFIED.
C16_MonotoneAcrossPhases ==
    after_phase2 # << >> =>
        /\ after_phase2[3] <= after_phase1[3]
        /\ after_phase2[1] >= after_phase1[1]
        /\ after_phase2[2] >= after_phase1[2]
        /\ after_phase1[3] - after_phase2[3] =
              (after_phase2[1] - after_phase1[1]) + (after_phase2[2] - after_phase1[2])
        /\ after_phase1[3] = Len(test_indices_unclassified_in_phase1)
        /\ \A s \in Unmarked : Recorded(s)
        /\ fold_result # << >> =>
              /\ <<fold_result[2], fold_result[4], fold_result[6]>> = after_phase1
              /\ <<fold_result[3], fold_result[5], fold_result[7]>> = after_phase2

C16_Witness ==
    /\ pc = "done"
    /\ after_phase1 = <<0, 0, 2>>
    /\ after_phase2[1] = 1
    /\ after_phase2[3] = 1
    /\ fold_result[6] > fold_result[7]

====
